---- MODULE Spec2Model ----
(***************************************************************************)
(* Model of the per-bucket migration engine of cellar-migration:           *)
(*   src/src/migrate.rs      migrate_bucket, create_destination_buckets    *)
(*   src/src/radosgw/mod.rs  RadosGW (request builders, list_objects)      *)
(* The Uploader worker pool (radosgw::uploader), the Source client         *)
(* (riakcs) and the descriptor equality (riakcs::dto) are referenced by    *)
(* these files but are not part of them; they are modelled from spec.md    *)
(* sections 3, 4.2, 4.3, 4.4 and 6.                                        *)
(*                                                                         *)
(* One behaviour is one invocation of create_destination_buckets           *)
(* (call = "prepare") or up to MaxRuns back-to-back invocations of         *)
(* migrate_bucket (call = "migrate") on one bucket.                        *)
(***************************************************************************)
EXTENDS Integers, Sequences, FiniteSets, TLC

VARIABLES
    call,            \* which entry point this behaviour executes
    conf,            \* BucketMigrationConfiguration: dry_run, sync_threads, chunk_size
    source,          \* Source bucket: key -> Option<ObjectContents>
    bucket_exists,   \* whether the Destination bucket exists
    destination,     \* Destination bucket: key -> Option<stored object>
    before,          \* the Destination bucket when the current run started
    uploads,         \* multipart uploads open on Destination (upload ids)
    run,             \* number of the current migrate_bucket invocation
    pc,              \* position of migrate_bucket
    riak_listing,    \* result of riak_objects_fut
    list_objects_result, \* what radosgw_client.list_objects returned
    radosgw_listing, \* result of radosgw_objects_fut (after or_else)
    riak_objects,    \* the Source list after retain
    queue,           \* Uploader work queue
    worker,          \* per worker: position and multipart state
    results,         \* per worker: list of per-object results
    reqs,            \* per key: requests issued against Destination in this run
    outcome,         \* what migrate_bucket returned in this run
    previous,        \* what the previous run returned
    args,            \* arguments of create_destination_buckets
    radosgw,         \* Destination buckets: owned by the caller, owned by others
    cdb_pc,          \* position of create_destination_buckets
    missing_buckets, \* the missing buckets not yet handled
    bucket_reqs,     \* bucket-level requests issued against Destination
    cdb_result,      \* what create_destination_buckets returned
    listing          \* one RadosGW::list_objects call: its loop, step by step

\* ------------------------------------------------------------------ bounds

\* Largest object size, in the unit in which chunk_size is ChunkSize.
MaxSize == 5
\* Largest sync_threads explored.
MaxThreads == 2
\* Number of back-to-back invocations of migrate_bucket.
MaxRuns == 2
\* The provider's minimum part size (5 MiB), in the unit of the object sizes.
ChunkSize == 2
\* The multipart minimum of spec.md 4.2.
MinPartSize == ChunkSize
\* conf.chunk_size of the runs explored: the minimum and, with one thread,
\* one below it.
ChunkSizes == {MinPartSize - 1, MinPartSize}

Keys == {"a", "b"}
\* Keys of the bucket a list_objects call on its own is run against.
ListKeys == {"a", "b", "c"}
\* Listing order of the providers (lexicographic).
KeyOrder == <<"a", "b", "c">>
\* Requests after which a list_objects loop is no longer followed.
MaxRequests == 5
Sizes == 0..MaxSize

\* ------------------------------------------------------------ data model

None == [tag |-> "None"]
Some(v) == [tag |-> "Some", v |-> v]
Ok(v) == [tag |-> "Ok", v |-> v]
Err(e) == [tag |-> "Err", e |-> e]
Pending == [tag |-> "Pending"]

\* Provider etags: the MD5 of the content for an object written by one PUT,
\* a composite over the parts for a multipart object.  content identifies
\* the bytes: 1 is the bytes the Source holds, 2 is any other content.
Md5Etag(content) == [kind |-> "md5", content |-> content, parts |-> 0]
MultipartEtag(content, n) == [kind |-> "multipart", content |-> content, parts |-> n]

\* ObjectContents, the Source descriptor.
ObjectContents(k, s, e) == [key |-> k, size |-> s, etag |-> e]

\* ObjectMetadataResponse: acl_public and the seven optional headers.
NoHeaders ==
    [cache_control |-> None, content_disposition |-> None,
     content_encoding |-> None, content_language |-> None,
     content_md5 |-> None, content_type |-> None, expires |-> None]
AllHeaders ==
    [cache_control |-> Some("cc"), content_disposition |-> Some("cd"),
     content_encoding |-> Some("ce"), content_language |-> Some("cl"),
     content_md5 |-> Some("md5"), content_type |-> Some("ct"),
     expires |-> Some("ex")]
\* The metadata Source holds for each key.
Metas(k) ==
    IF k = "a" THEN { [acl_public |-> TRUE, metadata |-> AllHeaders] }
    ELSE { [acl_public |-> FALSE, metadata |-> NoHeaders] }

\* ------------------------------------------------------- sequence helpers

RECURSIVE SelectKeys(_, _)
\* The keys of KeyOrder from position i on that satisfy Test, in order.
SelectKeys(i, present) ==
    IF i > Len(KeyOrder) THEN <<>>
    ELSE IF KeyOrder[i] \in present
         THEN <<KeyOrder[i]>> \o SelectKeys(i + 1, present)
         ELSE SelectKeys(i + 1, present)

RECURSIVE SumSizes(_)
SumSizes(objs) ==
    IF objs = <<>> THEN 0 ELSE Head(objs).size + SumSizes(Tail(objs))

RECURSIVE Flatten(_, _)
\* results[1] \o results[2] \o ... : the flat_map over the join results.
Flatten(rs, i) ==
    IF i > MaxThreads THEN <<>> ELSE rs[i] \o Flatten(rs, i + 1)

Range(s) == { s[i] : i \in 1..Len(s) }

\* ----------------------------------------------- RadosGW (radosgw/mod.rs)

\* rusoto_s3::Object as the Destination listing yields it.
Object(k, stored) ==
    [key |-> Some(k), e_tag |-> Some(stored.etag), size |-> Some(stored.size)]

\* Keys of the bucket present in objs.
PresentKeys(objs) == { k \in DOMAIN objs : objs[k] # None }

\* Position of key k in KeyOrder.
KeyIndex(k) == CHOOSE i \in 1..Len(KeyOrder) : KeyOrder[i] = k

\* Provider side of ListObjectsV2: at most PageSize objects of the bucket,
\* in lexicographic order, with keys strictly after start_after.
PageSize == 1
ListObjectsV2(objs, start_after) ==
    LET from == IF start_after = None THEN 1 ELSE KeyIndex(start_after.v) + 1
        all == SelectKeys(from, PresentKeys(objs))
        page == SubSeq(all, 1, IF Len(all) < PageSize THEN Len(all) ELSE PageSize)
    IN  [i \in 1..Len(page) |-> Object(page[i], objs[page[i]].v)]

RECURSIVE list_objects_loop(_, _)
\* The loop of RadosGW::list_objects: request the page after the last
\* accumulated key, stop at the first empty page.
list_objects_loop(objs, acc) ==
    LET start_after == IF acc = <<>> THEN None ELSE Some(acc[Len(acc)].key.v)
        objects == ListObjectsV2(objs, start_after)
    IN  IF objects = <<>> THEN acc
        ELSE list_objects_loop(objs, acc \o objects)

list_objects(objs) == list_objects_loop(objs, <<>>)

\* Mutant: start_after is taken from the first accumulated object.
list_objects_request_first(acc) ==
    [op |-> "ListObjectsV2",
     start_after |-> IF acc = <<>> THEN None ELSE Some(acc[1].key.v)]

\* The ListObjectsV2Request of one turn of the loop (lines 194-200), acc
\* being the results accumulated so far: start_after is
\* results.last().map(key).
list_objects_request(acc) ==
    [op |-> "ListObjectsV2",
     start_after |-> IF acc = <<>> THEN None ELSE Some(acc[Len(acc)].key.v)]

\* Mutant: the request carries no Content-Length.
put_object_without_length(key, object_metadata, size) ==
    [op |-> "PutObject",
     key |-> key,
     content_length |-> None,
     acl |-> IF object_metadata.acl_public THEN Some("public-read") ELSE None,
     cache_control |-> object_metadata.metadata.cache_control,
     content_disposition |-> object_metadata.metadata.content_disposition,
     content_encoding |-> object_metadata.metadata.content_encoding,
     content_language |-> object_metadata.metadata.content_language,
     content_md5 |-> object_metadata.metadata.content_md5,
     content_type |-> object_metadata.metadata.content_type,
     expires |-> object_metadata.metadata.expires]

\* Mutant: every object is PUT with the public-read ACL.
put_object_always_public(key, object_metadata, size) ==
    [op |-> "PutObject",
     key |-> key,
     content_length |-> Some(size),
     acl |-> Some("public-read"),
     cache_control |-> object_metadata.metadata.cache_control,
     content_disposition |-> object_metadata.metadata.content_disposition,
     content_encoding |-> object_metadata.metadata.content_encoding,
     content_language |-> object_metadata.metadata.content_language,
     content_md5 |-> object_metadata.metadata.content_md5,
     content_type |-> object_metadata.metadata.content_type,
     expires |-> object_metadata.metadata.expires]

\* PutObjectRequest built by RadosGW::put_object.
put_object(key, object_metadata, size) ==
    [op |-> "PutObject",
     key |-> key,
     content_length |-> Some(size),
     acl |-> IF object_metadata.acl_public THEN Some("public-read") ELSE None,
     cache_control |-> object_metadata.metadata.cache_control,
     content_disposition |-> object_metadata.metadata.content_disposition,
     content_encoding |-> object_metadata.metadata.content_encoding,
     content_language |-> object_metadata.metadata.content_language,
     content_md5 |-> object_metadata.metadata.content_md5,
     content_type |-> object_metadata.metadata.content_type,
     expires |-> object_metadata.metadata.expires]

\* Mutant: the multipart upload is created without the canned ACL.
create_multipart_upload_without_acl(key, object_metadata) ==
    [op |-> "CreateMultipartUpload",
     key |-> key,
     acl |-> None,
     cache_control |-> object_metadata.metadata.cache_control,
     content_disposition |-> object_metadata.metadata.content_disposition,
     content_encoding |-> object_metadata.metadata.content_encoding,
     content_language |-> object_metadata.metadata.content_language,
     content_type |-> object_metadata.metadata.content_type,
     expires |-> object_metadata.metadata.expires]

\* CreateMultipartUploadRequest built by RadosGW::create_multipart_upload.
create_multipart_upload(key, object_metadata) ==
    [op |-> "CreateMultipartUpload",
     key |-> key,
     acl |-> IF object_metadata.acl_public THEN Some("public-read") ELSE None,
     cache_control |-> object_metadata.metadata.cache_control,
     content_disposition |-> object_metadata.metadata.content_disposition,
     content_encoding |-> object_metadata.metadata.content_encoding,
     content_language |-> object_metadata.metadata.content_language,
     content_type |-> object_metadata.metadata.content_type,
     expires |-> object_metadata.metadata.expires]

\* UploadPartRequest built by RadosGW::put_object_part.
put_object_part(key, size, upload_id, part_number) ==
    [op |-> "UploadPart",
     key |-> key,
     upload_id |-> upload_id,
     part_number |-> part_number,
     content_length |-> Some(size)]

\* Mutant: the completed parts are listed last part first.
complete_multipart_upload_reversed(key, upload_id, parts) ==
    [op |-> "CompleteMultipartUpload",
     key |-> key,
     upload_id |-> upload_id,
     parts |-> [i \in 1..Len(parts) |->
                  [e_tag |-> parts[Len(parts) + 1 - i][2].e_tag,
                   part_number |-> Some(parts[Len(parts) + 1 - i][1])]]]

\* CompleteMultipartUploadRequest built by RadosGW::complete_multipart_upload:
\* one CompletedPart per (part_number, UploadPartOutput), in the order given.
complete_multipart_upload(key, upload_id, parts) ==
    [op |-> "CompleteMultipartUpload",
     key |-> key,
     upload_id |-> upload_id,
     parts |-> [i \in 1..Len(parts) |->
                  [e_tag |-> parts[i][2].e_tag, part_number |-> Some(parts[i][1])]]]

\* Variant of abort_multipart_upload that leaves upload_id at its default.
abort_multipart_upload_default_id(key, upload_id) ==
    [op |-> "AbortMultipartUpload", key |-> key, upload_id |-> <<>>]

\* AbortMultipartUploadRequest built by RadosGW::abort_multipart_upload.
abort_multipart_upload(key, upload_id) ==
    [op |-> "AbortMultipartUpload", key |-> key, upload_id |-> upload_id]

\* ------------------------------------------------ migrate_bucket (migrate.rs)

\* Mutant: a missing bucket is an empty listing outside a dry run too.
or_else_always_empty(res, dry_run) ==
    IF res.tag = "Ok" THEN res
    ELSE IF res.e = "NoSuchBucket" THEN Ok(<<>>)
    ELSE Err(res.e)

\* The or_else on the Destination listing: "no such bucket" is an empty
\* listing in a dry run, an error otherwise; any other error stays an error.
or_else(res, dry_run) ==
    IF res.tag = "Ok" THEN res
    ELSE IF res.e = "NoSuchBucket"
         THEN IF dry_run THEN Ok(<<>>) ELSE Err("Unexpected error")
         ELSE Err(res.e)

\* ObjectContents == rusoto_s3::Object (riakcs::dto): key and etag equality.
Equivalent(object, found) ==
    /\ found.key = Some(object.key)
    /\ found.e_tag = Some(object.etag)

RECURSIVE find(_, _)
\* radosgw_objects.iter().find(|robject| robject.key == Some(object.get_key()))
find(radosgw_objects, key) ==
    IF radosgw_objects = <<>> THEN None
    ELSE IF Head(radosgw_objects).key = Some(key)
         THEN Some(Head(radosgw_objects))
         ELSE find(Tail(radosgw_objects), key)

\* Mutant: every Source descriptor is retained.
retain_all(object, radosgw_objects) == TRUE

\* Mutant: only the descriptors whose key is absent from Destination are retained.
retain_only_absent(object, radosgw_objects) ==
    find(radosgw_objects, object.key) = None

\* The closure of riak_objects.retain.
retain_pred(object, radosgw_objects) ==
    LET found == find(radosgw_objects, object.key)
    IN  IF found # None THEN ~Equivalent(object, found.v) ELSE TRUE

\* riak_objects.retain(...): the kept descriptors, in listing order.
retain(objects, radosgw_objects) ==
    SelectSeq(objects, LAMBDA object : retain_pred(object, radosgw_objects))

\* Mutant: a failed Destination listing counts as an empty one.
join_unwrap_or_default(riak_result, radosgw_result) ==
    IF riak_result.tag = "Err" THEN Err(riak_result.e)
    ELSE Ok(<<riak_result.v,
              IF radosgw_result.tag = "Err" THEN <<>> ELSE radosgw_result.v>>)

\* Lines 96-98: both futures have completed; ? returns the first error.
join(riak_result, radosgw_result) ==
    IF riak_result.tag = "Err" THEN Err(riak_result.e)
    ELSE IF radosgw_result.tag = "Err" THEN Err(radosgw_result.e)
    ELSE Ok(<<riak_result.v, radosgw_result.v>>)

\* Mutant: the dry_run flag is not consulted.
runs_uploader_in_dry_run(dry_run, objects) == objects # <<>>

\* Lines 114-115: the Uploader is built only outside a dry run and only for
\* a non-empty retained list.
runs_uploader(dry_run, objects) == ~dry_run /\ objects # <<>>

BucketMigrationStats(size, objects) ==
    [bucket |-> "source_bucket", synchronization_size |-> size, objects |-> objects]

\* Mutant: only the first join result is searched for errors.
results_errors_first(rs) == SelectSeq(rs[1], LAMBDA r : r.tag = "Err")

\* results_errors: the per-object results that are errors.
results_errors(rs) == SelectSeq(Flatten(rs, 1), LAMBDA r : r.tag = "Err")

\* The fold over the Ok results of lines 140-151.
ok_size(rs) ==
    LET oks == SelectSeq(Flatten(rs, 1), LAMBDA r : r.tag = "Ok")
    IN  SumSizes([i \in 1..Len(oks) |-> oks[i].v])

\* Mutant: the error branch sums the sizes of all retained objects.
aggregate_all_sizes(rs, objects) ==
    LET errors == results_errors(rs)
    IN  IF errors # <<>>
        THEN [tag |-> "Err",
              e |-> "BucketMigrationError",
              errors |-> [i \in 1..Len(errors) |->
                            <<"Error synchronizing file", errors[i]>>],
              stats |-> BucketMigrationStats(SumSizes(objects), objects)]
        ELSE Ok(BucketMigrationStats(SumSizes(objects), objects))

\* What migrate_bucket returns once the Uploader has drained (lines 124-173).
aggregate(rs, objects) ==
    LET errors == results_errors(rs)
    IN  IF errors # <<>>
        THEN [tag |-> "Err",
              e |-> "BucketMigrationError",
              errors |-> [i \in 1..Len(errors) |->
                            <<"Error synchronizing file", errors[i]>>],
              stats |-> BucketMigrationStats(ok_size(rs), objects)]
        ELSE Ok(BucketMigrationStats(SumSizes(objects), objects))

\* Mutant: the Uploader is handed the Source listing as it was before the
\* retain.
sync_input_before_retain(riak_listed, radosgw_listed) == riak_listed

\* riak_objects as handed to Uploader::new (line 119): the Source listing
\* after the retain of lines 103-112 has run on it.
sync_input(riak_listed, radosgw_listed) == retain(riak_listed, radosgw_listed)

\* Mutant: sync_threads and chunk_size are passed in each other's place.
Uploader_new_swapped(objects, sync_threads, chunk_size) ==
    [objects |-> objects, sync_threads |-> chunk_size, chunk_size |-> sync_threads]

\* Mutant: the Uploader is handed one object per thread only.
Uploader_new_one_per_thread(objects, sync_threads, chunk_size) ==
    [objects |-> SubSeq(objects, 1, IF Len(objects) < sync_threads
                                    THEN Len(objects) ELSE sync_threads),
     sync_threads |-> sync_threads, chunk_size |-> chunk_size]

\* Uploader::new(riak_client, radosgw_client, riak_objects.clone(),
\* conf.sync_threads, conf.chunk_size) of lines 116-122: what the Uploader is
\* given to work with.
Uploader_new(objects, sync_threads, chunk_size) ==
    [objects |-> objects, sync_threads |-> sync_threads, chunk_size |-> chunk_size]

\* ------------------------------------------- Destination provider (S3 side)

\* What the Destination keeps of a PutObject or CreateMultipartUpload request;
\* the size it stores is that of the body it received.
Attrs(req) ==
    [acl |-> req.acl, cache_control |-> req.cache_control,
     content_disposition |-> req.content_disposition,
     content_encoding |-> req.content_encoding,
     content_language |-> req.content_language,
     content_type |-> req.content_type, expires |-> req.expires]

DefaultAttrs ==
    [acl |-> None, cache_control |-> None, content_disposition |-> None,
     content_encoding |-> None, content_language |-> None,
     content_type |-> None, expires |-> None]

Stored(size, etag, attrs) == [size |-> size, etag |-> etag, attrs |-> attrs]

\* The upload id CreateMultipartUpload returns: unique per key and run.
UploadId(k, r) == <<k, r>>

\* The etag UploadPart returns for part n of key k.
PartEtag(k, n) == <<k, n>>

\* Sum of the sizes of the parts received for an upload.
RECURSIVE SumParts(_, _)
SumParts(received, i) ==
    IF i > Len(received) THEN 0 ELSE received[i] + SumParts(received, i + 1)

\* ------------------------------------------------ Uploader (spec.md 4.2-4.4)

IdleWorker ==
    [pc |-> "idle", object |-> None, meta |-> None, upload_id |-> None,
     part_number |-> 0, parts |-> <<>>, error |-> None]

\* Number of parts of an object: contiguous ranges of chunk_size bytes,
\* the last one possibly shorter.
NumParts(size, chunk_size) == (size + chunk_size - 1) \div chunk_size

PartSize(size, chunk_size, n) ==
    IF n < NumParts(size, chunk_size) THEN chunk_size
    ELSE size - (n - 1) * chunk_size

\* size <= chunk_size: single PUT; size > chunk_size: multipart.
Strategy(size, chunk_size) == IF size <= chunk_size THEN "put" ELSE "create"

Workers == 1..MaxThreads

vars ==
    <<call, conf, source, bucket_exists, destination, before, uploads, run, pc,
      riak_listing, list_objects_result, radosgw_listing, riak_objects, queue,
      worker, results, reqs, outcome, previous, args, radosgw, cdb_pc, missing_buckets,
      bucket_reqs, cdb_result, listing>>

prep == <<args, radosgw, cdb_pc, missing_buckets, bucket_reqs, cdb_result>>
world == <<call, conf, source, bucket_exists, before, run, previous, prep, listing>>
migration ==
    <<conf, source, bucket_exists, destination, before, uploads, run, pc,
      riak_listing, list_objects_result, radosgw_listing, riak_objects, queue,
      worker, results, reqs, outcome, previous>>
engine ==
    <<pc, riak_listing, list_objects_result, radosgw_listing, riak_objects,
      outcome>>

\* ------------------------------------------------------------------- Init

\* Etags a Source descriptor may carry: the MD5 of its content.
SourceEtags == { Md5Etag(1) }

SourceObjects(k) ==
    {None} \cup { Some(ObjectContents(k, s, e)) : s \in Sizes, e \in SourceEtags }

\* What Destination may hold under k before the first run: nothing, an object
\* equivalent to the Source's, or an object with other content.
DestinationObjects(src) ==
    {None, Some(Stored(1, Md5Etag(2), DefaultAttrs))}
        \cup (IF src = None THEN {}
              ELSE {Some(Stored(src.v.size, src.v.etag, DefaultAttrs))})

InitMigrate ==
    /\ call = "migrate"
    /\ conf \in [dry_run : BOOLEAN, sync_threads : 1..MaxThreads,
                 chunk_size : ChunkSizes]
    /\ conf.chunk_size < MinPartSize => conf.sync_threads = 1
    /\ source \in [Keys -> UNION { SourceObjects(k) : k \in Keys }]
    /\ \A k \in Keys : source[k] \in SourceObjects(k)
    /\ bucket_exists \in BOOLEAN
    /\ destination \in [Keys -> UNION { DestinationObjects(source[k]) : k \in Keys }]
    /\ \A k \in Keys : destination[k] \in DestinationObjects(source[k])
    /\ bucket_exists = FALSE => \A k \in Keys : destination[k] = None
    /\ before = destination
    /\ list_objects_result = Pending
    /\ uploads = {}
    /\ run = 1
    /\ pc = "listing"
    /\ riak_listing = Pending
    /\ radosgw_listing = Pending
    /\ riak_objects = <<>>
    /\ queue = <<>>
    /\ worker = [w \in Workers |-> IdleWorker]
    /\ results = [w \in Workers |-> <<>>]
    /\ reqs = [k \in Keys |-> <<>>]
    /\ outcome = None
    /\ previous = None

\* Source bucket names and the configured prefixes and target names.
BucketNames == {"x", "y"}
Prefixes == {"", "p-"}
BucketLists ==
    { <<>> } \cup { <<b>> : b \in BucketNames }
        \cup { <<b, c>> : b \in BucketNames, c \in BucketNames }

InitPrepare ==
    /\ call = "prepare"
    /\ args \in [buckets : BucketLists,
                  destination_bucket : {None, Some("d")},
                  destination_bucket_prefix : Prefixes,
                  dry_run : BOOLEAN]
    /\ radosgw \in [owned : SUBSET {"p-x", "y", "p-d"}, foreign : SUBSET {"x", "p-y"}]
    /\ cdb_pc = "start"
    /\ missing_buckets = <<>>
    /\ bucket_reqs = <<>>
    /\ cdb_result = None

\* The variables of the entry point that is not executed keep these values.
IdleMigrate ==
    /\ conf = [dry_run |-> FALSE, sync_threads |-> 1, chunk_size |-> ChunkSize]
    /\ source = [k \in Keys |-> None]
    /\ bucket_exists = FALSE
    /\ destination = [k \in Keys |-> None]
    /\ before = destination
    /\ list_objects_result = Pending
    /\ uploads = {}
    /\ run = 1
    /\ pc = "idle"
    /\ riak_listing = Pending
    /\ radosgw_listing = Pending
    /\ riak_objects = <<>>
    /\ queue = <<>>
    /\ worker = [w \in Workers |-> IdleWorker]
    /\ results = [w \in Workers |-> <<>>]
    /\ reqs = [k \in Keys |-> <<>>]
    /\ outcome = None
    /\ previous = None

IdlePrepare ==
    /\ args = [buckets |-> <<>>, destination_bucket |-> None,
               destination_bucket_prefix |-> "", dry_run |-> FALSE]
    /\ radosgw = [owned |-> {}, foreign |-> {}]
    /\ cdb_pc = "idle"
    /\ missing_buckets = <<>>
    /\ bucket_reqs = <<>>
    /\ cdb_result = None

\* A list_objects call on a bucket holding any subset of ListKeys.
InitList ==
    /\ call = "list"
    /\ listing \in
          [bucket : [ListKeys -> {None, Some(Stored(1, Md5Etag(1), DefaultAttrs))}],
           pc : {"loop"}, results : {<<>>}, requests : {<<>>},
           responses : {<<>>}, returned : {None}]

IdleList ==
    listing = [bucket |-> [k \in ListKeys |-> None], pc |-> "idle",
               results |-> <<>>, requests |-> <<>>, responses |-> <<>>,
               returned |-> None]

Init ==
    \/ InitMigrate /\ IdlePrepare /\ IdleList
    \/ InitPrepare /\ IdleMigrate /\ IdleList
    \/ InitList /\ IdleMigrate /\ IdlePrepare

\* --------------------------------------------------- migrate_bucket actions

\* riak_client.list_objects(conf.max_keys): the flattened Source listing.
SourceListing ==
    LET ks == SelectKeys(1, PresentKeys(source))
    IN  [i \in 1..Len(ks) |-> source[ks[i]].v]

\* riak_objects_fut completes.
ListSource ==
    /\ call = "migrate" /\ pc = "listing" /\ riak_listing = Pending
    /\ riak_listing' \in {Ok(SourceListing), Err("Source listing failed")}
    /\ UNCHANGED <<world, destination, uploads, pc, list_objects_result,
                   radosgw_listing, riak_objects, queue, worker, results, reqs,
                   outcome>>

\* What radosgw_client.list_objects returns: NoSuchBucket when the bucket is
\* missing, else the paginated listing or a failure of one of its requests.
ListObjectsResults ==
    {Err("Destination listing failed")} \cup
        (IF bucket_exists THEN {Ok(list_objects(destination))}
         ELSE {Err("NoSuchBucket")})

\* radosgw_objects_fut completes.
ListDestination ==
    /\ call = "migrate" /\ pc = "listing" /\ radosgw_listing = Pending
    /\ \E res \in ListObjectsResults :
          /\ list_objects_result' = res
          /\ radosgw_listing' = or_else(res, conf.dry_run)
    /\ UNCHANGED <<world, destination, uploads, pc, riak_listing,
                   riak_objects, queue, worker, results, reqs, outcome>>

\* Lines 96-122 and 174-194: the join of the two listings, the ? on each, the
\* retain, and the branch on dry_run and on the retained list being empty.
Diff ==
    /\ call = "migrate" /\ pc = "listing"
    /\ riak_listing # Pending /\ radosgw_listing # Pending
    /\ LET joined == join(riak_listing, radosgw_listing)
       IN  IF joined.tag = "Err"
           THEN /\ outcome' = Some(Err(joined.e))
                /\ pc' = "done"
                /\ UNCHANGED <<riak_objects, queue>>
           ELSE LET retained == retain(joined.v[1], joined.v[2])
                IN  /\ riak_objects' = retained
                    /\ IF runs_uploader(conf.dry_run, retained)
                       THEN /\ queue' = Uploader_new(
                                           sync_input(joined.v[1], joined.v[2]),
                                           conf.sync_threads,
                                           conf.chunk_size).objects
                            /\ pc' = "uploading"
                            /\ outcome' = outcome
                       ELSE /\ queue' = queue
                            /\ pc' = "done"
                            /\ outcome' = Some(Ok(BucketMigrationStats(0, retained)))
    /\ UNCHANGED <<world, destination, uploads, riak_listing,
                   list_objects_result, radosgw_listing, worker, results, reqs>>

\* Lines 123-173: uploader.sync() has returned; classify the results.
Aggregate ==
    /\ call = "migrate" /\ pc = "uploading"
    /\ queue = <<>>
    /\ \A w \in Workers : worker[w].pc = "idle"
    /\ outcome' = Some(aggregate(results, riak_objects))
    /\ pc' = "done"
    /\ UNCHANGED <<world, destination, uploads, riak_listing,
                   list_objects_result, radosgw_listing, riak_objects, queue,
                   worker, results, reqs>>

\* The caller invokes migrate_bucket again with the same configuration.
Rerun ==
    /\ call = "migrate" /\ pc = "done" /\ run < MaxRuns
    /\ outcome.v.tag = "Ok"
    /\ previous' = outcome
    /\ run' = run + 1
    /\ pc' = "listing"
    /\ riak_listing' = Pending
    /\ list_objects_result' = Pending
    /\ radosgw_listing' = Pending
    /\ before' = destination
    /\ riak_objects' = <<>>
    /\ results' = [w \in Workers |-> <<>>]
    /\ reqs' = [k \in Keys |-> <<>>]
    /\ outcome' = None
    /\ UNCHANGED <<call, conf, source, bucket_exists, destination, uploads,
                   queue, worker, prep, listing>>

\* ------------------------------------------------ Uploader worker actions

\* The worker records the result of its object and is free again.
Finish(w, result) ==
    /\ results' = [results EXCEPT ![w] = Append(@, result)]
    /\ worker' = [worker EXCEPT ![w] = IdleWorker]

Failure(object, message) == Err([key |-> object.key, message |-> message])

\* The request is issued: it is appended to the requests of its key.
Issue(req) == reqs' = [reqs EXCEPT ![req.key] = Append(@, req)]

\* The Uploader of the run: its threads and its chunk size are the ones it
\* was constructed with.
uploader == Uploader_new(riak_objects, conf.sync_threads, conf.chunk_size)

\* A worker takes ownership of the next queued object.
Take(w) ==
    /\ call = "migrate" /\ pc = "uploading"
    /\ w <= uploader.sync_threads
    /\ worker[w].pc = "idle"
    /\ queue # <<>>
    /\ worker' = [worker EXCEPT ![w] =
                    [IdleWorker EXCEPT !.pc = "metadata", !.object = Some(Head(queue))]]
    /\ queue' = Tail(queue)
    /\ UNCHANGED <<world, engine, destination, uploads, results, reqs>>

\* Step 1: fetch the object's metadata from Source, then choose the strategy.
GetObjectMetadata(w) ==
    /\ call = "migrate" /\ worker[w].pc = "metadata"
    /\ LET object == worker[w].object.v
       IN  \/ /\ \E m \in Metas(object.key) :
                    worker' = [worker EXCEPT ![w].meta = Some(m),
                                 ![w].pc = Strategy(object.size, uploader.chunk_size)]
              /\ UNCHANGED results
           \/ Finish(w, Failure(object, "metadata_error"))
    /\ UNCHANGED <<world, engine, destination, uploads, queue, reqs>>

\* Single-PUT strategy: open the Source stream, issue one PUT.
PutObject(w) ==
    /\ call = "migrate" /\ worker[w].pc = "put"
    /\ LET object == worker[w].object.v
           req == put_object(object.key, worker[w].meta.v, object.size)
       IN  \/ /\ Finish(w, Failure(object, "source stream"))
              /\ UNCHANGED <<destination, reqs>>
           \/ /\ Issue(req)
              /\ \/ /\ destination' = [destination EXCEPT ![object.key] =
                          Some(Stored(object.size, Md5Etag(1), Attrs(req)))]
                    /\ Finish(w, Ok(object))
                 \/ /\ Finish(w, Failure(object, "PutObject"))
                    /\ UNCHANGED destination
    /\ UNCHANGED <<world, engine, uploads, queue>>

\* Multipart step 1: CreateMultipartUpload.
CreateMultipartUpload(w) ==
    /\ call = "migrate" /\ worker[w].pc = "create"
    /\ LET object == worker[w].object.v
           req == create_multipart_upload(object.key, worker[w].meta.v)
           id == UploadId(object.key, run)
       IN  /\ Issue(req)
           /\ \/ /\ uploads' = uploads \cup
                        {[upload_id |-> id, create |-> req, received |-> <<>>]}
                 /\ worker' = [worker EXCEPT ![w].pc = "part",
                                 ![w].upload_id = Some(id), ![w].part_number = 1]
                 /\ UNCHANGED results
              \/ /\ Finish(w, Failure(object, "CreateMultipartUpload"))
                 /\ UNCHANGED uploads
    /\ UNCHANGED <<world, engine, destination, queue>>

\* The open upload with this id.
Upload(id) == CHOOSE u \in uploads : u.upload_id = id

\* Multipart steps 2-3: read the range of the next part, UploadPart it.
UploadPart(w) ==
    /\ call = "migrate" /\ worker[w].pc = "part"
    /\ LET object == worker[w].object.v
           n == worker[w].part_number
           id == worker[w].upload_id.v
           size == PartSize(object.size, uploader.chunk_size, n)
           req == put_object_part(object.key, size, id, n)
           u == Upload(id)
       IN  \/ /\ worker' = [worker EXCEPT ![w].pc = "abort",
                              ![w].error = Some("source stream")]
              /\ UNCHANGED <<uploads, reqs>>
           \/ /\ Issue(req)
              /\ \/ /\ uploads' = (uploads \ {u}) \cup
                          {[u EXCEPT !.received = Append(@, size)]}
                    /\ worker' = [worker EXCEPT
                          ![w].parts = Append(@, <<n, [e_tag |-> Some(PartEtag(object.key, n))]>>),
                          ![w].part_number = n + 1,
                          ![w].pc = IF n = NumParts(object.size, uploader.chunk_size)
                                    THEN "complete" ELSE "part"]
                 \/ /\ worker' = [worker EXCEPT ![w].pc = "abort",
                                    ![w].error = Some("UploadPart")]
                    /\ UNCHANGED uploads
    /\ UNCHANGED <<world, engine, destination, queue, results>>

\* Multipart step 4: CompleteMultipartUpload with the recorded parts.
CompleteMultipartUpload(w) ==
    /\ call = "migrate" /\ worker[w].pc = "complete"
    /\ LET object == worker[w].object.v
           id == worker[w].upload_id.v
           req == complete_multipart_upload(object.key, id, worker[w].parts)
           u == Upload(id)
       IN  /\ Issue(req)
           /\ \/ /\ destination' = [destination EXCEPT ![object.key] =
                       Some(Stored(SumParts(u.received, 1),
                                   MultipartEtag(1, Len(req.parts)),
                                   Attrs(u.create)))]
                 /\ uploads' = uploads \ {u}
                 /\ Finish(w, Ok(object))
              \/ /\ worker' = [worker EXCEPT ![w].pc = "abort",
                                 ![w].error = Some("CompleteMultipartUpload")]
                 /\ UNCHANGED <<destination, uploads, results>>
    /\ UNCHANGED <<world, engine, queue>>

\* Multipart step 5: abort after a failure; the first error is the result
\* whether or not the abort succeeds.
AbortMultipartUpload(w) ==
    /\ call = "migrate" /\ worker[w].pc = "abort"
    /\ LET object == worker[w].object.v
           id == worker[w].upload_id.v
           req == abort_multipart_upload(object.key, id)
       IN  /\ Issue(req)
           /\ \/ \E u \in uploads :
                    /\ u.upload_id = req.upload_id
                    /\ uploads' = uploads \ {u}
              \/ UNCHANGED uploads
           /\ Finish(w, Failure(object, worker[w].error.v))
    /\ UNCHANGED <<world, engine, destination, queue>>

\* --------------------------------- create_destination_buckets (migrate.rs)

\* format!("{}{}", prefix, name)
format(prefix, name) == prefix \o name

\* Lines 216-231: the source buckets whose prefixed name is not the name of
\* any listed Destination bucket, in the order given.
missing(buckets, destination_bucket_prefix, radosgw_buckets) ==
    SelectSeq(buckets, LAMBDA riakcs_bucket :
        ~\E i \in 1..Len(radosgw_buckets) :
            format(destination_bucket_prefix, riakcs_bucket) = radosgw_buckets[i].name.v)

\* Lines 235-239: the name the loop works on for a missing bucket.
destination_bucket_name(destination_bucket, destination_bucket_prefix, bucket) ==
    IF destination_bucket # None
    THEN format(destination_bucket_prefix, destination_bucket.v)
    ELSE format(destination_bucket_prefix, bucket)

\* Lines 252-256: the probe answers the loop goes on after.
probe_tolerated(res) == res.tag = "Ok" \/ res.e = "NoSuchBucket"

\* Mutant: the loop goes on after any answer to create_bucket.
create_tolerated_any(res) == TRUE

\* Lines 268-270: the create_bucket answers the loop goes on after.
create_tolerated(res) == res.tag = "Ok" \/ res.e = "BucketAlreadyOwnedByYou"

RECURSIVE SetToSeq(_)
SetToSeq(S) ==
    IF S = {} THEN <<>>
    ELSE LET x == CHOOSE y \in S : TRUE IN <<x>> \o SetToSeq(S \ {x})

\* The loop has handled a bucket: go on with the rest, or return Ok(()).
Continue(rest) ==
    /\ missing_buckets' = rest
    /\ IF rest = <<>>
       THEN cdb_pc' = "done" /\ cdb_result' = Some(Ok("unit"))
       ELSE cdb_pc' = "loop" /\ UNCHANGED cdb_result

\* return Err(e)
Return(e) ==
    /\ cdb_pc' = "done"
    /\ cdb_result' = Some(Err(e))
    /\ UNCHANGED missing_buckets

\* A bucket-level request and the answer it got, as logged.
Sent(req, res) ==
    bucket_reqs' = Append(bucket_reqs, req @@ [result |-> res])

\* Lines 213-232: list the Destination buckets once, compute the missing ones.
ListBuckets ==
    /\ call = "prepare" /\ cdb_pc = "start"
    /\ \/ LET owned == SetToSeq(radosgw.owned)
              radosgw_buckets == [i \in 1..Len(owned) |-> [name |-> Some(owned[i])]]
          IN  /\ Sent([op |-> "ListBuckets"], Ok(radosgw_buckets))
              /\ Continue(missing(args.buckets, args.destination_bucket_prefix,
                                  radosgw_buckets))
       \/ /\ Sent([op |-> "ListBuckets"], Err("ListBuckets failed"))
          /\ Return("ListBuckets failed")
    /\ UNCHANGED <<call, migration, args, radosgw, listing>>

\* What list_objects(Some(1)) answers for a bucket name.
ProbeResults(name) ==
    {Err("request failed")} \cup
        (IF name \in radosgw.owned THEN {Ok(<<>>)}
         ELSE IF name \in radosgw.foreign THEN {Err("AccessDenied")}
         ELSE {Err("NoSuchBucket")})

\* Lines 241-260: one iteration of the loop in a dry run.
ProbeBucket ==
    /\ call = "prepare" /\ cdb_pc = "loop" /\ args.dry_run
    /\ LET bucket == Head(missing_buckets)
           destination_bucket == destination_bucket_name(
               args.destination_bucket, args.destination_bucket_prefix, bucket)
       IN  \E res \in ProbeResults(destination_bucket) :
              /\ Sent([op |-> "ListObjectsV2", bucket |-> destination_bucket,
                       max_keys |-> Some(1)], res)
              /\ IF probe_tolerated(res)
                 THEN Continue(Tail(missing_buckets))
                 ELSE Return(res.e)
    /\ UNCHANGED <<call, migration, args, radosgw, listing>>

\* What CreateBucket answers for a bucket name.
CreateBucketResults(name) ==
    {Err("request failed")} \cup
        (IF name \in radosgw.owned THEN {Err("BucketAlreadyOwnedByYou")}
         ELSE IF name \in radosgw.foreign THEN {Err("BucketAlreadyExists")}
         ELSE {Ok("created")})

\* Lines 261-282: one iteration of the loop outside a dry run.
CreateBucket ==
    /\ call = "prepare" /\ cdb_pc = "loop" /\ ~args.dry_run
    /\ LET bucket == Head(missing_buckets)
           destination_bucket == destination_bucket_name(
               args.destination_bucket, args.destination_bucket_prefix, bucket)
       IN  \E res \in CreateBucketResults(destination_bucket) :
              /\ Sent([op |-> "CreateBucket", bucket |-> destination_bucket], res)
              /\ radosgw' = IF res.tag = "Ok"
                            THEN [radosgw EXCEPT !.owned = @ \cup {destination_bucket}]
                            ELSE radosgw
              /\ IF create_tolerated(res)
                 THEN Continue(Tail(missing_buckets))
                 ELSE Return(res.e)
    /\ UNCHANGED <<call, migration, args, listing>>

\* ------------------------------------ RadosGW::list_objects, turn by turn

\* One turn of the loop of lines 193-213: build the request from the
\* accumulated results, send it, return the error (?), break on an empty
\* page, append the page otherwise.
ListPage ==
    /\ call = "list" /\ listing.pc = "loop"
    /\ Len(listing.requests) < MaxRequests
    /\ LET request == list_objects_request(listing.results)
           objects == ListObjectsV2(listing.bucket, request.start_after)
           sent == [listing EXCEPT !.requests = Append(@, request)]
       IN  \/ listing' = [sent EXCEPT !.responses = Append(@, Err("ListObjectsV2")),
                                      !.pc = "done",
                                      !.returned = Some(Err("ListObjectsV2"))]
           \/ listing' = [sent EXCEPT
                             !.responses = Append(@, Ok(objects)),
                             !.pc = IF objects = <<>> THEN "done" ELSE "loop",
                             !.results = IF objects = <<>> THEN @ ELSE @ \o objects,
                             !.returned = IF objects = <<>>
                                          THEN Some(Ok(listing.results)) ELSE @]
    /\ UNCHANGED <<call, migration, prep>>

WorkerStep(w) ==
    \/ Take(w)
    \/ GetObjectMetadata(w)
    \/ PutObject(w)
    \/ CreateMultipartUpload(w)
    \/ UploadPart(w)
    \/ CompleteMultipartUpload(w)
    \/ AbortMultipartUpload(w)

Next ==
    \/ ListSource
    \/ ListDestination
    \/ Diff
    \/ \E w \in Workers : WorkerStep(w)
    \/ Aggregate
    \/ Rerun
    \/ ListBuckets
    \/ ProbeBucket
    \/ CreateBucket
    \/ ListPage

Spec == Init /\ [][Next]_vars

\* ================================================================ claims

WriteOps ==
    {"PutObject", "CreateMultipartUpload", "UploadPart", "CompleteMultipartUpload"}
MultipartOps ==
    {"CreateMultipartUpload", "UploadPart", "CompleteMultipartUpload",
     "AbortMultipartUpload"}

\* The requests of key k with operation op, in the order issued.
Calls(k, op) == SelectSeq(reqs[k], LAMBDA r : r.op = op)

\* The objects a worker or the queue currently holds.
Held ==
    { worker[w].object.v.key : w \in { v \in Workers : worker[v].object # None } }
        \cup { queue[i].key : i \in 1..Len(queue) }

Returned == call = "migrate" /\ pc = "done"

\* C1: with dry_run = true neither migrate_bucket nor
\* create_destination_buckets issues a PUT, a CreateMultipartUpload, an
\* UploadPart, a CompleteMultipartUpload or a CreateBucket, whatever the
\* listings return and whatever is retained; Destination is left as it was.
C1_DryRunIssuesNoWrite ==
    /\ (call = "migrate" /\ conf.dry_run) =>
          /\ \A k \in Keys : \A i \in 1..Len(reqs[k]) : reqs[k][i].op \notin WriteOps
          /\ destination = before
          /\ uploads = {}
    /\ (call = "prepare" /\ args.dry_run) =>
          \A i \in 1..Len(bucket_reqs) : bucket_reqs[i].op # "CreateBucket"

\* A dry run has returned with a non-empty retained list.
C1_Witness ==
    /\ Returned /\ conf.dry_run
    /\ outcome.v.tag = "Ok"
    /\ riak_objects # <<>>

\* Source's descriptor of k is equivalent to the one Destination held before
\* the run: same key, same etag.
EquivalentBefore(k) ==
    /\ source[k] # None /\ before[k] # None
    /\ before[k].v.etag = source[k].v.etag

OnlyOnDestination(k) == source[k] = None /\ before[k] # None

\* C2: for a key whose Source descriptor is equivalent to its Destination
\* descriptor before the run, and for a key present only on Destination, no
\* request is issued against Destination and the object there is unchanged.
C2_EquivalentKeysUntouched ==
    call = "migrate" =>
        \A k \in Keys :
            (EquivalentBefore(k) \/ OnlyOnDestination(k)) =>
                /\ reqs[k] = <<>>
                /\ k \notin Held
                /\ destination[k] = before[k]

\* A run that transferred one key has returned while another key was
\* equivalent on both sides.
C2_Witness ==
    /\ Returned /\ ~conf.dry_run
    /\ \E k \in Keys : EquivalentBefore(k)
    /\ \E k \in Keys : Calls(k, "PutObject") # <<>> \/ Calls(k, "CompleteMultipartUpload") # <<>>

\* S needs transfer: Destination has no descriptor with S's key, or the one
\* it has is not equivalent to S.
NeedsTransfer(k) ==
    /\ source[k] # None
    /\ before[k] = None \/ before[k].v.etag # source[k].v.etag

\* The diff has run on two listings.
Diffed ==
    /\ call = "migrate" /\ pc \in {"uploading", "done"}
    /\ riak_listing.tag = "Ok" /\ radosgw_listing.tag = "Ok"

\* C3: the retained set is exactly the Source descriptors that have no
\* Destination descriptor with their key or a non-equivalent one; each is
\* retained once.
C3_RetainedExactly ==
    Diffed =>
        /\ Range(riak_objects) = { source[k].v : k \in { j \in Keys : NeedsTransfer(j) } }
        /\ Len(riak_objects) = Cardinality({ j \in Keys : NeedsTransfer(j) })

\* The diff kept a descriptor whose key Destination holds with another etag
\* and dropped an equivalent one.
C3_Witness ==
    /\ Diffed
    /\ \E k \in Keys : EquivalentBefore(k)
    /\ \E k \in Keys : NeedsTransfer(k) /\ before[k] # None

\* The per-object results of the run, and the keys they are about.
AllResults == Flatten(results, 1)
OkKeys == { r.v.key : r \in { x \in Range(AllResults) : x.tag = "Ok" } }
FailedKeys == { r.e.key : r \in { x \in Range(AllResults) : x.tag = "Err" } }

\* uploader.sync() ran and migrate_bucket has returned.
Drained == Returned /\ AllResults # <<>>

\* C4: after the Uploader drains, migrate_bucket returns Ok iff every
\* per-object result is Ok; otherwise it returns a BucketMigrationError with
\* the stats and exactly one message per failed object.
C4_SuccessIffAllOk ==
    Drained =>
        /\ outcome.v.tag = "Ok" <=> \A i \in 1..Len(AllResults) : AllResults[i].tag = "Ok"
        /\ outcome.v.tag = "Err" =>
              /\ outcome.v.e = "BucketMigrationError"
              /\ outcome.v.stats.objects = riak_objects
              /\ Len(outcome.v.errors) = Cardinality(FailedKeys)
              /\ { outcome.v.errors[i][2].e.key : i \in 1..Len(outcome.v.errors) }
                    = FailedKeys

\* A run has returned with one object transferred and one failed.
C4_Witness ==
    /\ Drained
    /\ OkKeys # {} /\ FailedKeys # {}
    /\ outcome.v.tag = "Err"

RECURSIVE SourceSize(_)
\* Sum of the Source sizes of a set of keys.
SourceSize(ks) ==
    IF ks = {} THEN 0
    ELSE LET k == CHOOSE j \in ks : TRUE
         IN  source[k].v.size + SourceSize(ks \ {k})

\* The Source descriptors that need transfer, in listing order.
ExpectedRetained ==
    LET ks == SelectKeys(1, { j \in Keys : NeedsTransfer(j) })
    IN  [i \in 1..Len(ks) |-> source[ks[i]].v]

HasStats ==
    Returned /\ (outcome.v.tag = "Ok" \/ outcome.v.e = "BucketMigrationError")

StatsOf(o) == IF o.tag = "Ok" THEN o.v ELSE o.stats

\* C5: in every outcome that carries stats, synchronization_size is the sum of
\* the sizes of the objects whose result is Ok (0 when no transfer ran) and
\* objects is the retained list of the diff, failed objects included.
C5_StatsSizeAndObjects ==
    HasStats =>
        /\ StatsOf(outcome.v).synchronization_size = SourceSize(OkKeys)
        /\ StatsOf(outcome.v).objects = ExpectedRetained

\* A partial failure: some bytes landed, one object failed.
C5_Witness ==
    /\ HasStats /\ outcome.v.tag = "Err"
    /\ FailedKeys # {}
    /\ SourceSize(OkKeys) > 0
    /\ \E k \in FailedKeys : source[k].v.size > 0

\* A listing failed, the dry-run "no such bucket" excepted.
ListingFailed ==
    \/ riak_listing.tag = "Err"
    \/ /\ list_objects_result.tag = "Err"
       /\ ~(conf.dry_run /\ list_objects_result.e = "NoSuchBucket")

\* C6: when a listing fails (the dry-run "no such bucket" excepted)
\* migrate_bucket returns an error, no Uploader is built and no request is
\* issued for any object.
C6_ListingFailureIsFatal ==
    (call = "migrate" /\ ListingFailed) =>
        /\ pc # "uploading"
        /\ queue = <<>>
        /\ \A w \in Workers : worker[w].pc = "idle"
        /\ AllResults = <<>>
        /\ \A k \in Keys : reqs[k] = <<>>
        /\ destination = before
        /\ pc = "done" => outcome.v.tag = "Err"

\* Outside a dry run the Destination listing failed while Source listed an
\* object that needed transfer.
C6_Witness ==
    /\ Returned /\ ~conf.dry_run
    /\ riak_listing.tag = "Ok"
    /\ list_objects_result.tag = "Err"
    /\ \E k \in Keys : NeedsTransfer(k)

NoSuchBucket ==
    list_objects_result.tag = "Err" /\ list_objects_result.e = "NoSuchBucket"

\* C7 as stated: when the Destination listing fails with "no such bucket", a
\* dry run returns Ok with size 0 and the full Source list, any other run
\* returns an error.
C7_NoSuchBucket ==
    (Returned /\ NoSuchBucket) =>
        IF conf.dry_run
        THEN outcome.v = Ok(BucketMigrationStats(0, SourceListing))
        ELSE outcome.v.tag = "Err"

\* C7 amended: the dry run returns Ok with size 0 and the full Source list
\* when the Source listing succeeds, and the Source listing's error when it
\* fails; outside a dry run the failure is fatal.
C7_NoSuchBucketAmended ==
    (Returned /\ NoSuchBucket) =>
        IF conf.dry_run
        THEN /\ riak_listing.tag = "Ok" =>
                   outcome.v = Ok(BucketMigrationStats(0, SourceListing))
             /\ riak_listing.tag = "Err" => outcome.v = Err(riak_listing.e)
        ELSE outcome.v.tag = "Err"

\* A dry run on a missing Destination bucket has returned the Source list.
C7_Witness ==
    /\ Returned /\ NoSuchBucket /\ conf.dry_run
    /\ riak_listing.tag = "Ok"
    /\ SourceListing # <<>>
    /\ outcome.v.tag = "Ok"

\* C8: a second run with dry_run = false after a first run that succeeded for
\* every object, on an unchanged Source and with both listings answered,
\* reports synchronization_size = 0 and an empty objects list and issues no
\* write request.
C8_SecondRunTransfersNothing ==
    (/\ Returned /\ run >= 2 /\ ~conf.dry_run
     /\ previous # None /\ previous.v.tag = "Ok"
     /\ riak_listing.tag = "Ok" /\ list_objects_result.tag = "Ok") =>
        /\ outcome.v = Ok(BucketMigrationStats(0, <<>>))
        /\ \A k \in Keys : \A i \in 1..Len(reqs[k]) : reqs[k][i].op \notin WriteOps

\* The keys the Uploader has given a result.
ResultKeys == OkKeys \cup FailedKeys

\* The result of key k.
ResultOf(k) ==
    CHOOSE r \in Range(AllResults) :
        IF r.tag = "Ok" THEN r.v.key = k ELSE r.e.key = k

NoMultipartCall(k) ==
    \A i \in 1..Len(reqs[k]) : reqs[k][i].op \notin MultipartOps

\* C9 as stated: every retained object of size <= chunk_size is transferred
\* with exactly one PUT of Content-Length size and no multipart call; an
\* object of size > chunk_size gets no PUT.
C9_SinglePut ==
    call = "migrate" =>
        \A k \in ResultKeys :
            IF source[k].v.size <= conf.chunk_size
            THEN /\ Len(Calls(k, "PutObject")) = 1
                 /\ Calls(k, "PutObject")[1].content_length = Some(source[k].v.size)
                 /\ NoMultipartCall(k)
            ELSE Calls(k, "PutObject") = <<>>

\* The transfer of k got as far as its request to Destination: its result is
\* Ok or the error of the PUT itself.
ReachedDestination(k) ==
    ResultOf(k).tag = "Ok" \/ ResultOf(k).e.message = "PutObject"

\* C9 amended: an object of size <= chunk_size gets no multipart call and
\* exactly one PUT, of Content-Length size, unless its metadata fetch or the
\* opening of its Source stream fails, in which case no PUT is issued; an
\* object of size > chunk_size gets no PUT.
C9_SinglePutAmended ==
    call = "migrate" =>
        \A k \in ResultKeys :
            IF source[k].v.size <= conf.chunk_size
            THEN /\ NoMultipartCall(k)
                 /\ \A i \in 1..Len(Calls(k, "PutObject")) :
                       Calls(k, "PutObject")[i].content_length = Some(source[k].v.size)
                 /\ Len(Calls(k, "PutObject")) = IF ReachedDestination(k) THEN 1 ELSE 0
            ELSE Calls(k, "PutObject") = <<>>

\* Objects of size 0 and of size exactly chunk_size were both transferred by
\* one PUT.
C9_Witness ==
    /\ Returned
    /\ \E k \in OkKeys : source[k].v.size = conf.chunk_size /\ Len(Calls(k, "PutObject")) = 1
    /\ \E k \in OkKeys : source[k].v.size = 0 /\ Len(Calls(k, "PutObject")) = 1

\* C10: for an object of size > chunk_size whose multipart transfer succeeds,
\* there are ceil(size / chunk_size) UploadPart calls, numbered 1..N in
\* increasing order, every part but the last of chunk_size bytes and the parts
\* adding up to the object, and exactly one CompleteMultipartUpload, carrying
\* the (part_number, etag) pairs those calls returned in ascending order.
C10_MultipartParts ==
    call = "migrate" =>
        \A k \in OkKeys :
            source[k].v.size > conf.chunk_size =>
                LET ups == Calls(k, "UploadPart")
                    n == Len(ups)
                    size == source[k].v.size
                    done == Calls(k, "CompleteMultipartUpload")
                IN  /\ (n - 1) * conf.chunk_size < size
                    /\ size <= n * conf.chunk_size
                    /\ \A i \in 1..n : ups[i].part_number = i
                    /\ \A i \in 1..(n - 1) : ups[i].content_length = Some(conf.chunk_size)
                    /\ ups[n].content_length = Some(size - (n - 1) * conf.chunk_size)
                    /\ Len(done) = 1
                    /\ done[1].parts =
                          [i \in 1..n |-> [e_tag |-> Some(PartEtag(k, i)),
                                           part_number |-> Some(i)]]
                    /\ \A i \in 1..n : ups[i].upload_id = done[1].upload_id
                    /\ Len(Calls(k, "CreateMultipartUpload")) = 1

\* An object of more than two chunks was completed from three parts.
C10_Witness ==
    /\ Returned
    /\ \E k \in OkKeys :
          /\ source[k].v.size > 2 * conf.chunk_size
          /\ Len(Calls(k, "UploadPart")) = 3
          /\ Len(Calls(k, "CompleteMultipartUpload")) = 1

\* C11: an object whose multipart transfer failed after its
\* CreateMultipartUpload succeeded (a part, a Source range read or the
\* completion failed) has, when its result exists, exactly one
\* AbortMultipartUpload request, issued last, on its key and on the upload_id
\* its create returned; the result is Err with the error of the step that
\* failed first, also when the abort itself failed.
AbortedAfterCreate(k) ==
    /\ k \in FailedKeys
    /\ ResultOf(k).e.message \in {"UploadPart", "source stream",
                                   "CompleteMultipartUpload"}
    /\ Calls(k, "CreateMultipartUpload") # <<>>

C11_AbortAfterFailure ==
    call = "migrate" =>
       \A k \in Keys :
          AbortedAfterCreate(k) =>
             LET aborts == Calls(k, "AbortMultipartUpload")
                 last == reqs[k][Len(reqs[k])]
             IN  /\ Len(aborts) = 1
                 /\ last = aborts[1]
                 /\ last.key = k
                 /\ last.upload_id = UploadId(k, run)
                 /\ ResultOf(k).tag = "Err"
                 /\ (Calls(k, "CompleteMultipartUpload") # <<>>
                       <=> ResultOf(k).e.message = "CompleteMultipartUpload")
                 /\ ResultOf(k).e.message # "AbortMultipartUpload"

\* A part upload failed, the abort was issued and failed too (the upload is
\* still open), and the result carries the part's error.
C11_Witness ==
    /\ call = "migrate"
    /\ \E k \in Keys :
          /\ AbortedAfterCreate(k)
          /\ ResultOf(k).e.message = "UploadPart"
          /\ Len(Calls(k, "AbortMultipartUpload")) = 1
          /\ \E u \in uploads : u.upload_id = UploadId(k, run)

\* The metadata Source declares for key k.
MetaOf(k) == CHOOSE object_metadata \in Metas(k) : TRUE

\* What Destination should keep of the declared metadata.
DeclaredAttrs(object_metadata) ==
    [acl |-> IF object_metadata.acl_public THEN Some("public-read") ELSE None,
     cache_control |-> object_metadata.metadata.cache_control,
     content_disposition |-> object_metadata.metadata.content_disposition,
     content_encoding |-> object_metadata.metadata.content_encoding,
     content_language |-> object_metadata.metadata.content_language,
     content_type |-> object_metadata.metadata.content_type,
     expires |-> object_metadata.metadata.expires]

\* Key k is on Destination whole: the declared size, the Source bytes, the
\* declared metadata.
FullyPresent(k) ==
    /\ destination[k] # None
    /\ destination[k].v.size = source[k].v.size
    /\ destination[k].v.etag.content = 1
    /\ destination[k].v.attrs = DeclaredAttrs(MetaOf(k))

\* The multipart upload this run created for key k is still open.
OpenUpload(k) == \E u \in uploads : u.upload_id = UploadId(k, run)

\* Ok: the object is whole on Destination; Err: Destination holds for the key
\* what it held when the run began.
AllOrNothing(k) ==
    /\ k \in OkKeys => FullyPresent(k)
    /\ k \in FailedKeys => destination[k] = before[k]

\* C12 as stated: once an object has its result it is whole on Destination
\* (Ok) or Destination holds for its key what it held before (Err), and no
\* multipart upload created for it is still open.
C12_AllOrNothing ==
    call = "migrate" =>
       \A k \in ResultKeys : AllOrNothing(k) /\ ~OpenUpload(k)

\* C12 amended: as above, except that an upload may stay open when the
\* AbortMultipartUpload issued for it has failed.
C12_AllOrNothingAmended ==
    call = "migrate" =>
       \A k \in ResultKeys :
          /\ AllOrNothing(k)
          /\ k \in OkKeys => ~OpenUpload(k)
          /\ OpenUpload(k) =>
                \E i \in 1..Len(reqs[k]) :
                   /\ reqs[k][i].op = "AbortMultipartUpload"
                   /\ reqs[k][i].upload_id = UploadId(k, run)

\* One object was completed from parts and is whole on Destination, another
\* failed after its create, its abort succeeded and Destination still holds
\* the different object it held before.
C12_Witness ==
    /\ call = "migrate"
    /\ \E k \in OkKeys, j \in FailedKeys :
          /\ Calls(k, "CompleteMultipartUpload") # <<>>
          /\ FullyPresent(k)
          /\ Calls(j, "AbortMultipartUpload") # <<>>
          /\ ~OpenUpload(j)
          /\ before[j] # None
          /\ destination[j] = before[j]

\* The workers that have taken an object and not yet recorded its result.
InFlight == { w \in Workers : worker[w].pc # "idle" }

\* C13: at every instant the number of objects taken from the queue and not
\* yet given a result is at most sync_threads.
C13_InFlightBounded ==
    call = "migrate" => Cardinality(InFlight) <= conf.sync_threads

\* With sync_threads = 1 one object is in flight while another waits in the
\* queue; with sync_threads = 2 two objects are in flight at once.
C13_Witness ==
    /\ call = "migrate"
    /\ \/ conf.sync_threads = 1 /\ Cardinality(InFlight) = 1 /\ queue # <<>>
       \/ conf.sync_threads = 2 /\ Cardinality(InFlight) = 2

\* The number of results recorded for key k.
ResultCount(k) ==
    Len(SelectSeq(AllResults,
                  LAMBDA r : IF r.tag = "Ok" THEN r.v.key = k ELSE r.e.key = k))

\* C14: under every interleaving of the workers no object gets two results
\* or a second transfer attempt, and once the Uploader has drained the result
\* list has exactly one entry for each retained object, failed siblings or
\* not.
C14_OneResultPerObject ==
    call = "migrate" =>
       /\ \A k \in Keys :
             /\ ResultCount(k) <= 1
             /\ Len(Calls(k, "PutObject")) + Len(Calls(k, "CreateMultipartUpload")) <= 1
       /\ Drained =>
             /\ Len(AllResults) = Len(riak_objects)
             /\ \A i \in 1..Len(riak_objects) :
                   /\ ResultCount(riak_objects[i].key) = 1
                   /\ riak_objects[i].key \in OkKeys =>
                         ResultOf(riak_objects[i].key) = Ok(riak_objects[i])

\* One worker handled two objects: the first failed, the second was
\* transferred after it and has its own Ok result.
C14_Witness ==
    /\ Drained
    /\ \E w \in Workers :
          /\ Len(results[w]) = 2
          /\ results[w][1].tag = "Err"
          /\ results[w][2].tag = "Ok"
          /\ destination[results[w][2].v.key] # before[results[w][2].v.key]

\* The two listings as migrate_bucket holds them.
Listings == <<riak_listing, list_objects_result, radosgw_listing>>

\* One step of a migrate_bucket call that respects the order listings, diff,
\* uploads.
OrderedStep ==
    /\ pc' = "uploading" =>
          /\ riak_listing'.tag = "Ok" /\ radosgw_listing'.tag = "Ok"
          /\ \A w \in Workers :
                worker'[w].object # None =>
                   worker'[w].object.v \in Range(riak_objects')
          /\ \A i \in 1..Len(queue') : queue'[i] \in Range(riak_objects')
    /\ pc = "uploading" =>
          /\ riak_objects' = riak_objects
          /\ Listings' = Listings
    /\ (\E k \in Keys : Len(reqs'[k]) > Len(reqs[k])) =>
          pc = "uploading" /\ pc' = "uploading"
    /\ riak_objects' # riak_objects =>
          \/ /\ pc = "listing"
             /\ riak_listing # Pending /\ radosgw_listing # Pending
             /\ Listings' = Listings
          \/ pc = "done" /\ pc' = "listing"

\* C15: within one migrate_bucket call both listings have completed before
\* the diff is computed, the diff is complete before the first upload request
\* is issued and the objects uploaded are those of the diff, and while the
\* uploads run the retained set is not recomputed and no listing is queried
\* again.
C15_ListingsDiffUploads == [][call = "migrate" => OrderedStep]_vars

\* Uploads are under way: a write request has been issued for one retained
\* object while another is still queued.
C15_Witness ==
    /\ call = "migrate" /\ pc = "uploading"
    /\ queue # <<>>
    /\ \E k \in Keys : Len(reqs[k]) > 0 /\ reqs[k][1].op \in WriteOps

\* C16: a migrate_bucket call whose chunk_size is below the provider's
\* multipart minimum is refused with a configuration error before any I/O:
\* no listing is requested, no write request is issued.
C16_ChunkSizeBelowMinimum ==
    (call = "migrate" /\ conf.chunk_size < MinPartSize) =>
        /\ riak_listing = Pending
        /\ list_objects_result = Pending
        /\ \A k \in Keys : reqs[k] = <<>>
        /\ Returned => outcome.v = Err("configuration_error")

\* The six headers both kinds of write carry.
CommonHeaders ==
    {"cache_control", "content_disposition", "content_encoding",
     "content_language", "content_type", "expires"}

\* Request req carries the ACL and the six headers Source declares for key k.
CarriesDeclared(req, k) ==
    /\ (req.acl = Some("public-read")) <=> MetaOf(k).acl_public
    /\ ~MetaOf(k).acl_public => req.acl = None
    /\ \A h \in CommonHeaders : req[h] = MetaOf(k).metadata[h]

\* C17: every PutObject and every CreateMultipartUpload request carries ACL
\* public-read exactly when Source reports acl_public (no ACL otherwise) and
\* the six headers cache_control, content_disposition, content_encoding,
\* content_language, content_type and expires as Source holds them, present
\* or absent; of the two, only the PutObject carries Content-MD5 and
\* Content-Length.
C17_HeadersMapped ==
    call = "migrate" =>
       \A k \in Keys : \A i \in 1..Len(reqs[k]) :
          LET req == reqs[k][i]
          IN  /\ req.op = "PutObject" =>
                    /\ CarriesDeclared(req, k)
                    /\ req.content_md5 = MetaOf(k).metadata.content_md5
                    /\ req.content_length = Some(source[k].v.size)
              /\ req.op = "CreateMultipartUpload" =>
                    /\ CarriesDeclared(req, k)
                    /\ "content_md5" \notin DOMAIN req
                    /\ "content_length" \notin DOMAIN req

\* The public object with every header set was created as a multipart upload
\* and the private object with no header was written by a single PUT, in the
\* same run.
C17_Witness ==
    /\ call = "migrate"
    /\ \E k, j \in Keys :
          /\ MetaOf(k).acl_public /\ MetaOf(k).metadata.expires # None
          /\ Calls(k, "CreateMultipartUpload") # <<>>
          /\ ~MetaOf(j).acl_public /\ MetaOf(j).metadata.expires = None
          /\ Calls(j, "PutObject") # <<>>

\* The objects of the bucket being listed, each once, in key order.
WholeBucket ==
    LET ks == SelectKeys(1, PresentKeys(listing.bucket))
    IN  [i \in 1..Len(ks) |-> Object(ks[i], listing.bucket[ks[i]].v)]

RECURSIVE Pages(_, _)
\* The pages answered up to response i, one after the other.
Pages(responses, i) ==
    IF i = 0 THEN <<>>
    ELSE Pages(responses, i - 1)
            \o (IF responses[i].tag = "Ok" THEN responses[i].v ELSE <<>>)

\* C18: list_objects asks for the first page without start_after and for
\* every later page with start_after = the key of the last object accumulated
\* so far; it asks again only after a non-empty page and stops at the first
\* empty one.  With a provider that answers in lexicographic order strictly
\* after start_after it ends after at most one request per object plus one,
\* and what it returns is every object of the bucket exactly once, in page
\* order.
C18_Pagination ==
    call = "list" =>
       LET requests == listing.requests
           responses == listing.responses
           n == Len(requests)
       IN  /\ Len(responses) = n
           /\ n <= Cardinality(PresentKeys(listing.bucket)) + 1
           /\ n >= 1 => requests[1].start_after = None
           /\ \A i \in 2..n :
                 /\ responses[i - 1].tag = "Ok"
                 /\ responses[i - 1].v # <<>>
                 /\ LET acc == Pages(responses, i - 1)
                    IN  requests[i].start_after = Some(acc[Len(acc)].key.v)
           /\ listing.results = Pages(responses, n)
           /\ \A i, j \in 1..Len(listing.results) :
                 i < j => KeyIndex(listing.results[i].key.v)
                             < KeyIndex(listing.results[j].key.v)
           /\ listing.pc = "loop" => (n = 0 \/ responses[n].v # <<>>)
           /\ listing.pc = "done" =>
                 /\ listing.returned # None
                 /\ listing.returned.v.tag = "Ok" =>
                       /\ responses[n] = Ok(<<>>)
                       /\ listing.returned.v.v = WholeBucket
                       /\ listing.returned.v.v = list_objects(listing.bucket)
                       /\ n = (Len(WholeBucket) + PageSize - 1) \div PageSize + 1

\* A bucket of three objects was listed over several pages and the loop
\* stopped at the empty page after the last object.
C18_Witness ==
    /\ call = "list"
    /\ listing.pc = "done" /\ listing.returned.v.tag = "Ok"
    /\ Len(listing.returned.v.v) = 3
    /\ Len(listing.requests) >= 3
    /\ listing.requests[Len(listing.requests)].start_after = Some("c")

\* create_destination_buckets has listed the Destination buckets.
BucketsListed ==
    /\ call = "prepare"
    /\ bucket_reqs # <<>>
    /\ bucket_reqs[1].result.tag = "Ok"

\* The bucket names of that listing.
ListedNames ==
    { bucket_reqs[1].result.v[i].name.v : i \in 1..Len(bucket_reqs[1].result.v) }

\* The derived name of a Source bucket: the prefix followed by its name.
DerivedName(bucket) == args.destination_bucket_prefix \o bucket

\* The Source buckets whose derived name is not in the listing, in the order
\* given.
MissingSources ==
    SelectSeq(args.buckets, LAMBDA bucket : DerivedName(bucket) \notin ListedNames)

\* The requests of the loop: everything after the bucket listing.
LoopRequests == Tail(bucket_reqs)

\* C19: outside a dry run create_destination_buckets lists the Destination
\* buckets once; the i-th CreateBucket is issued on the derived name of the
\* i-th Source bucket whose derived name is missing from the listing, never
\* on a name present in the listing, and an answer 'already owned by you' is
\* not returned as an error.
C19_CreatesMissingDerivedNames ==
    (call = "prepare" /\ ~args.dry_run) =>
        /\ \A i \in 2..Len(bucket_reqs) : bucket_reqs[i].op = "CreateBucket"
        /\ BucketsListed =>
              /\ Len(LoopRequests) <= Len(MissingSources)
              /\ \A i \in 1..Len(LoopRequests) :
                    /\ LoopRequests[i].bucket = DerivedName(MissingSources[i])
                    /\ LoopRequests[i].bucket \notin ListedNames
              /\ (cdb_pc = "done" /\ cdb_result.v.tag = "Ok") =>
                    Len(LoopRequests) = Len(MissingSources)
              /\ (cdb_pc = "done" /\ LoopRequests # <<>>
                    /\ LoopRequests[Len(LoopRequests)].result
                          = Err("BucketAlreadyOwnedByYou")) =>
                    cdb_result.v.tag = "Ok"

\* The answers after which the loop goes on to the next bucket.
Tolerated(req) ==
    \/ req.result.tag = "Ok"
    \/ req.op = "CreateBucket" /\ req.result.e = "BucketAlreadyOwnedByYou"
    \/ req.op = "ListObjectsV2" /\ req.result.e = "NoSuchBucket"

\* C20: the missing buckets are handled one after the other, in order, one
\* request each; every request but the last got a tolerated answer; the call
\* returns the first other error, with the later missing buckets untouched
\* and the buckets created so far still there, and returns Ok only when every
\* missing bucket got a tolerated answer.
C20_StopsAtFirstFailure ==
    BucketsListed =>
        LET n == Len(LoopRequests)
        IN  /\ n <= Len(MissingSources)
            /\ \A i \in 1..n :
                  /\ LoopRequests[i].op =
                        IF args.dry_run THEN "ListObjectsV2" ELSE "CreateBucket"
                  /\ LoopRequests[i].bucket =
                        destination_bucket_name(args.destination_bucket,
                                                args.destination_bucket_prefix,
                                                MissingSources[i])
                  /\ i < n => Tolerated(LoopRequests[i])
                  /\ (LoopRequests[i].op = "CreateBucket"
                        /\ LoopRequests[i].result.tag = "Ok") =>
                        LoopRequests[i].bucket \in radosgw.owned
            /\ cdb_pc = "done" =>
                  IF n > 0 /\ ~Tolerated(LoopRequests[n])
                  THEN /\ cdb_result = Some(Err(LoopRequests[n].result.e))
                       /\ missing_buckets =
                             SubSeq(MissingSources, n, Len(MissingSources))
                  ELSE /\ cdb_result = Some(Ok("unit"))
                       /\ n = Len(MissingSources)
                       /\ missing_buckets = <<>>
            /\ cdb_pc # "done" => (n = 0 \/ Tolerated(LoopRequests[n]))

\* Two buckets were missing; the first was created, the second CreateBucket
\* failed and its error was returned, the first bucket still being there.
C20_Witness ==
    /\ BucketsListed /\ ~args.dry_run /\ cdb_pc = "done"
    /\ Len(MissingSources) = 2 /\ Len(LoopRequests) = 2
    /\ LoopRequests[1].result.tag = "Ok"
    /\ LoopRequests[1].bucket \in radosgw.owned
    /\ cdb_result.v = Err("BucketAlreadyExists")

====
